---- MODULE Spec2Model ----
(***************************************************************************)
(* Model of src/src/xdfgenerator.py: the MapInfo record codec, the scan    *)
(* find_lookup_table_offset and the decode pass of generate_xdf.           *)
(*                                                                         *)
(* Bytes are integers 0..255, a bytes object is a sequence of them; the    *)
(* Python index i is the TLA+ index i+1.  Python's None is the integer     *)
(* None for Optional[int] values and the empty sequence NoneBytes for an   *)
(* Optional[bytes] argument.  A call that may raise yields the name of the *)
(* exception ("ValueError", "IndexError", "struct.error") as its status.   *)
(***************************************************************************)
EXTENDS Integers, Sequences, FiniteSets, TLC

VARIABLES
    data,              \* input_bytes / data: the firmware image
    pc,                \* control point of find_lookup_table_offset / generate_xdf
    position,          \* scan / decode cursor
    candidate_offset,  \* Optional[int], line 102
    valid_n,           \* line 103
    result,            \* value returned by find_lookup_table_offset
    exc,               \* exception that left the function, "none" if none
    run_start,         \* history: position where the latest run began
    map_data_offset,   \* --position argument of generate_xdf (None if absent)
    maps,              \* list of decoded MapInfo records, line 141
    xdf,               \* tables written to the output document
    window,            \* codec tests: map_info_data
    bin_size,          \* codec tests: bin_size
    verdict,           \* codec tests: outcome of validate_map_info_format
    map_info,          \* codec tests: outcome of MapInfo.from_bytes
    corrupted,         \* codec tests: final byte was overwritten with 0x01
    cpc                \* codec tests: control point

vars == <<data, pc, position, candidate_offset, valid_n, result, exc, run_start,
          map_data_offset, maps, xdf, window, bin_size, verdict, map_info,
          corrupted, cpc>>

scanVars  == <<pc, position, candidate_offset, valid_n, result, exc, run_start>>
genVars   == <<map_data_offset, maps, xdf>>
codecVars == <<window, bin_size, verdict, map_info, corrupted, cpc>>

(***************************************************************************)
(* Python values                                                           *)
(***************************************************************************)
None == -1
NoneBytes == <<>>

\* truth value of an Optional[int]: None and 0 are both false
Truthy(v) == v # None /\ v # 0

\* truth value of an Optional[bytes]: None and b'' are false, b'\x00' is true
TruthyBytes(b) == Len(b) > 0

Min(a, b) == IF a < b THEN a ELSE b
Max(a, b) == IF a > b THEN a ELSE b

\* buf[a:b] for 0 <= a <= b
Slice(buf, a, b) == SubSeq(buf, a + 1, Min(b, Len(buf)))

\* buf[-n:]
Last(buf, n) == SubSeq(buf, Max(1, Len(buf) - n + 1), Len(buf))

\* int.from_bytes(b, byteorder='big')
RECURSIVE int_from_bytes(_)
int_from_bytes(b) ==
    IF b = <<>> THEN 0
    ELSE 256 * int_from_bytes(SubSeq(b, 1, Len(b) - 1)) + b[Len(b)]

(***************************************************************************)
(* struct formats, lines 7-8 ('>': big-endian, no alignment)               *)
(***************************************************************************)
FORMAT_2D_MAPINFO == <<"c", "c", "x", "x", "I", "I", "x", "x", "x", "x">>
FORMAT_3D_MAPINFO == <<"c", "c", "c", "x", "I", "I", "I", "x", "x", "x", "x">>

FieldWidth(code) == IF code = "I" THEN 4 ELSE 1

\* struct.calcsize
RECURSIVE calcsize(_)
calcsize(fmt) ==
    IF fmt = <<>> THEN 0 ELSE FieldWidth(Head(fmt)) + calcsize(Tail(fmt))

\* struct.unpack on a buffer of the right size: 'c' gives a bytes object of
\* length 1, 'I' an unsigned int, 'x' nothing
RECURSIVE unpack_from(_, _, _)
unpack_from(fmt, buf, off) ==
    IF fmt = <<>> THEN <<>>
    ELSE LET c    == Head(fmt)
             rest == unpack_from(Tail(fmt), buf, off + FieldWidth(c))
         IN  IF c = "x" THEN rest
             ELSE IF c = "c" THEN <<Slice(buf, off, off + 1)>> \o rest
             ELSE <<int_from_bytes(Slice(buf, off, off + 4))>> \o rest

(***************************************************************************)
(* MapInfo, lines 6-92                                                     *)
(***************************************************************************)
\* lines 43-50
get_map_type(id) ==
    IF id > 42 THEN "ValueError"
    ELSE IF id > 15 THEN "3d"
    ELSE "2d"

\* lines 34-41
get_map_info_size(map_type) ==
    IF map_type = "3d" THEN calcsize(FORMAT_3D_MAPINFO)
    ELSE calcsize(FORMAT_2D_MAPINFO)

\* id & (1 << k) # 0
BitSet(id, k) == (id \div (2 ^ k)) % 2 = 1

\* lines 52-71
get_x_element_size(id) == IF BitSet(id, 4) THEN 8 ELSE 16
get_y_element_size(id) == IF BitSet(id, 2) THEN 8 ELSE 16
get_z_element_size(id) == IF BitSet(id, 0) THEN 8 ELSE 16

\* MapInfo.__init__ with the y fields chosen by the integer value of y_len
\* (and of y_addr) instead of the truth value of the bytes object
MapInfoInit_intTruth(type, id, x_len, y_len, x_addr, y_addr, z_addr) ==
    LET idv == int_from_bytes(id)
        yl  == IF TruthyBytes(y_len) THEN int_from_bytes(y_len) ELSE None
    IN  [type     |-> type,
         id       |-> idv,
         x_len    |-> int_from_bytes(x_len),
         y_len    |-> IF Truthy(yl) THEN yl ELSE None,
         x_addr   |-> x_addr,
         y_addr   |-> IF Truthy(yl) /\ Truthy(y_addr) THEN y_addr ELSE None,
         z_addr   |-> z_addr,
         x_format |-> get_x_element_size(idv),
         z_format |-> get_z_element_size(idv),
         y_format |-> IF type = "3d" THEN get_y_element_size(idv) ELSE None]

\* MapInfo.__init__, lines 10-23: y_len is a bytes object of length 1 for a
\* 3-D record (true even when it is b'\x00') and None for a 2-D record
MapInfoInit(type, id, x_len, y_len, x_addr, y_addr, z_addr) ==
    LET idv == int_from_bytes(id)
    IN  [type     |-> type,
         id       |-> idv,
         x_len    |-> int_from_bytes(x_len),
         y_len    |-> IF TruthyBytes(y_len) THEN int_from_bytes(y_len) ELSE None,
         x_addr   |-> x_addr,
         y_addr   |-> IF TruthyBytes(y_len) THEN y_addr ELSE None,
         z_addr   |-> z_addr,
         x_format |-> get_x_element_size(idv),
         z_format |-> get_z_element_size(idv),
         y_format |-> IF type = "3d" THEN get_y_element_size(idv) ELSE None]

NoMapInfo ==
    [type |-> "none", id |-> None, x_len |-> None, y_len |-> None,
     x_addr |-> None, y_addr |-> None, z_addr |-> None,
     x_format |-> None, z_format |-> None, y_format |-> None]

Raised(e) == [status |-> e, value |-> NoMapInfo]

\* MapInfo.from_bytes, lines 25-32
from_bytes(buf) ==
    IF Len(buf) = 0 THEN Raised("IndexError")
    ELSE LET t == get_map_type(buf[1])
         IN  IF t = "ValueError" THEN Raised("ValueError")
             ELSE IF t = "3d"
             THEN IF Len(buf) # calcsize(FORMAT_3D_MAPINFO) THEN Raised("struct.error")
                  ELSE LET v == unpack_from(FORMAT_3D_MAPINFO, buf, 0)
                       IN  [status |-> "ok",
                            value  |-> MapInfoInit("3d", v[1], v[2], v[3], v[4], v[5], v[6])]
             ELSE IF Len(buf) # calcsize(FORMAT_2D_MAPINFO) THEN Raised("struct.error")
                  ELSE LET v == unpack_from(FORMAT_2D_MAPINFO, buf, 0)
                       IN  [status |-> "ok",
                            value  |-> MapInfoInit("2d", v[1], v[2], NoneBytes, v[3], None, v[4])]

\* line 76: the padding byte test
PaddingByteOk(w) == w[4] \in {0, 255}

\* the trailing-bytes test with the final byte left out
TrailingZero_three(w) == \A i \in 1..Len(w) : i >= Len(w) - 3 /\ i < Len(w) => w[i] = 0
\* line 78: the four trailing bytes
TrailingZero(w) == LET t == Last(w, 4) IN \A i \in 1..Len(t) : t[i] = 0

\* lines 83-89: the address tests on a decoded record
AddressesOk(m, size) ==
    /\ ~(m.x_addr = 0 \/ m.x_addr >= size)
    /\ (Truthy(m.y_addr) => ~(m.y_addr = 0 \/ m.y_addr >= size))
    /\ ~(m.z_addr = 0 \/ m.z_addr >= size)

\* validate_map_info_format, lines 73-92
validate_map_info_format(w, size) ==
    IF Len(w) < 4 THEN "IndexError"
    ELSE IF ~PaddingByteOk(w) THEN "False"
    ELSE IF ~TrailingZero(w) THEN "False"
    ELSE LET r == from_bytes(w)
         IN  IF r.status = "ValueError" THEN "False"
             ELSE IF r.status # "ok" THEN r.status
             ELSE IF AddressesOk(r.value, size) THEN "True" ELSE "False"

(***************************************************************************)
(* find_lookup_table_offset, lines 94-129                                  *)
(***************************************************************************)
OFFSET_ALIGNMENT == 4
VALID_N_THRESHOLD == 5

\* lines 107-110 at the cursor p: the outcome of the try block's test.
\* "ValueError" is get_map_type's, caught at line 120; "IndexError" and
\* "struct.error" are not caught and leave the function.
ScanOutcome(buf, p) ==
    LET t == get_map_type(buf[p + 1])
    IN  IF t = "ValueError" THEN "ValueError"
        ELSE validate_map_info_format(Slice(buf, p, p + get_map_info_size(t)), Len(buf))

\* line 108 at the cursor p (type recognised)
ScanSize(buf, p) == get_map_info_size(get_map_type(buf[p + 1]))

\* lines 111-112
NextCandidate(cand, pos) == IF ~Truthy(cand) THEN pos ELSE cand

\* the resume position with the alignment step applied only when no run is active
ResumePosition_noStep(cand, pos) ==
    IF Truthy(cand) THEN cand ELSE pos + OFFSET_ALIGNMENT
\* lines 123-127
ResumePosition(cand, pos) ==
    (IF Truthy(cand) THEN cand ELSE pos) + OFFSET_ALIGNMENT

\* lines 123-126
ResumeCandidate(cand) == IF Truthy(cand) THEN None ELSE cand

\* lines 110-119, valid window, threshold not reached
ScanValid ==
    /\ pc = "scan"
    /\ position < Len(data)
    /\ ScanOutcome(data, position) = "True"
    /\ valid_n + 1 < VALID_N_THRESHOLD
    /\ candidate_offset' = NextCandidate(candidate_offset, position)
    /\ valid_n' = valid_n + 1
    /\ position' = position + ScanSize(data, position)
    /\ run_start' = IF valid_n = 0 THEN position ELSE run_start
    /\ UNCHANGED <<data, pc, result, exc, genVars, codecVars>>

\* lines 110-116, valid window, threshold reached
ScanFound ==
    /\ pc = "scan"
    /\ position < Len(data)
    /\ ScanOutcome(data, position) = "True"
    /\ valid_n + 1 >= VALID_N_THRESHOLD
    /\ candidate_offset' = NextCandidate(candidate_offset, position)
    /\ valid_n' = valid_n + 1
    /\ result' = candidate_offset'
    /\ pc' = "returned"
    /\ run_start' = IF valid_n = 0 THEN position ELSE run_start
    /\ UNCHANGED <<data, position, exc, genVars, codecVars>>

\* lines 120-128, the window at the cursor is no valid MapInfo
ScanInvalid ==
    /\ pc = "scan"
    /\ position < Len(data)
    /\ ScanOutcome(data, position) \in {"False", "ValueError"}
    /\ position' = ResumePosition(candidate_offset, position)
    /\ candidate_offset' = ResumeCandidate(candidate_offset)
    /\ valid_n' = 0
    /\ UNCHANGED <<data, pc, result, exc, run_start, genVars, codecVars>>

\* line 110 raises an exception that line 120 does not catch
ScanRaise ==
    /\ pc = "scan"
    /\ position < Len(data)
    /\ ScanOutcome(data, position) \in {"IndexError", "struct.error"}
    /\ exc' = ScanOutcome(data, position)
    /\ pc' = "error"
    /\ UNCHANGED <<data, position, candidate_offset, valid_n, result, run_start,
                   genVars, codecVars>>

\* lines 105, 129
ScanExhausted ==
    /\ pc = "scan"
    /\ position >= Len(data)
    /\ exc' = "ValueError"
    /\ pc' = "notfound"
    /\ UNCHANGED <<data, position, candidate_offset, valid_n, result, run_start,
                   genVars, codecVars>>

(***************************************************************************)
(* Images: concatenations of at most MaxChunks chunks                      *)
(***************************************************************************)
MaxChunks == 6

\* Every byte of a chunk is below 128, so that any four consecutive bytes of
\* an image, read as an unsigned 32-bit field, stay within TLC's integers.
\* a plausible 2-D record (x at 4, z at 8), padding bytes 0x00
Rec2D == <<9, 29, 0, 0,  0, 0, 0, 4,  0, 0, 0, 8,  0, 0, 0, 0>>
\* a plausible 3-D record in an image of more than 40 bytes (x 4, y 12, z 40)
Rec3D == <<41, 6, 25, 0,  0, 0, 0, 4,  0, 0, 0, 12,  0, 0, 0, 40,  0, 0, 0, 0>>
\* a word whose leading byte is no recognised type
JunkWord == <<127, 127, 127, 127>>
\* a single zero byte: shifts what follows off the 4-byte grid, and as the
\* last bytes of an image leaves a window cut short
ZeroByte == <<0>>

Chunks == {Rec2D, Rec3D, JunkWord, ZeroByte}

\* the concatenations of at most n members of the set of sequences parts
RECURSIVE Concatenations(_, _)
Concatenations(parts, n) ==
    IF n = 0 THEN {<<>>}
    ELSE {<<>>} \cup {c \o rest : c \in parts, rest \in Concatenations(parts, n - 1)}

Images == Concatenations(Chunks, MaxChunks)

CodecIdle ==
    /\ window = <<>>
    /\ bin_size = 0
    /\ verdict = "none"
    /\ map_info = Raised("none")
    /\ corrupted = FALSE
    /\ cpc = "idle"

GenIdle ==
    /\ map_data_offset = None
    /\ maps = <<>>
    /\ xdf = <<>>

\* before find_lookup_table_offset is called on its own (test lines 63-67)
InitLocate ==
    /\ data = <<>>
    /\ pc = "idle"
    /\ position = 0
    /\ candidate_offset = None
    /\ valid_n = 0
    /\ result = None
    /\ exc = "none"
    /\ run_start = None
    /\ GenIdle
    /\ CodecIdle

\* find_lookup_table_offset(d) is entered, lines 95-103
CallLocate ==
    /\ pc = "idle"
    /\ \E d \in Images : data' = d
    /\ position' = 0
    /\ candidate_offset' = None
    /\ valid_n' = 0
    /\ pc' = "scan"
    /\ UNCHANGED <<result, exc, run_start, genVars, codecVars>>

\* one pass through the loop body, lines 105-129
ScanStep ==
    \/ ScanValid
    \/ ScanFound
    \/ ScanInvalid
    \/ ScanRaise
    \/ ScanExhausted

NextLocate ==
    \/ CallLocate
    \/ ScanStep

SpecLocate == InitLocate /\ [][NextLocate]_vars

(***************************************************************************)
(* generate_xdf, lines 131-247                                             *)
(***************************************************************************)
MaxGenChunks == 5
MaxOffsetWords == 5

\* images of whole records and junk words
GenChunks == {Rec2D, Rec3D, JunkWord}
GenImages == Concatenations(GenChunks, MaxGenChunks)

\* --position: absent, or a word-aligned offset up to MaxOffsetWords words
Offsets == {None} \cup {OFFSET_ALIGNMENT * k : k \in 0..MaxOffsetWords}

\* lines 172-242: the table written for the unique_id-th record
XdfTable(unique_id, m) ==
    [uniqueid |-> unique_id,
     type     |-> m.type,
     x        |-> [address |-> m.x_addr, bits |-> m.x_format, count |-> m.x_len],
     y        |-> IF m.type = "3d"
                  THEN [address |-> m.y_addr, bits |-> m.y_format, count |-> m.y_len]
                  ELSE [address |-> None, bits |-> 8, count |-> 1],
     z        |-> [address |-> m.z_addr, bits |-> m.z_format,
                   rowcount |-> m.y_len, colcount |-> m.x_len]]

\* lines 171-173: unique_id counts the records from 1
XdfTables(ms) == [i \in 1..Len(ms) |-> XdfTable(i, ms[i])]

InitGenerate ==
    /\ data \in GenImages
    /\ map_data_offset \in Offsets
    /\ pc = "start"
    /\ position = 0
    /\ candidate_offset = None
    /\ valid_n = 0
    /\ result = None
    /\ exc = "none"
    /\ run_start = None
    /\ maps = <<>>
    /\ xdf = <<>>
    /\ CodecIdle

\* lines 136-137: the user provided the offset
StartExplicit ==
    /\ pc = "start"
    /\ map_data_offset # None
    /\ position' = map_data_offset
    /\ pc' = "decode"
    /\ UNCHANGED <<data, candidate_offset, valid_n, result, exc, run_start,
                   genVars, codecVars>>

\* lines 138-139 and 101-103: find_lookup_table_offset is entered
StartLocate ==
    /\ pc = "start"
    /\ map_data_offset = None
    /\ position' = 0
    /\ candidate_offset' = None
    /\ valid_n' = 0
    /\ pc' = "scan"
    /\ UNCHANGED <<data, result, exc, run_start, genVars, codecVars>>

\* line 139: the offset found becomes the decode cursor
LocateReturn ==
    /\ pc = "returned"
    /\ position' = result
    /\ pc' = "decode"
    /\ UNCHANGED <<data, candidate_offset, valid_n, result, exc, run_start,
                   genVars, codecVars>>

\* the except clause left out: the ValueError leaves generate_xdf
AfterUnrecognized_raise == "error"
\* lines 148-149: except ValueError: break, the loop ends and line 160 is next
AfterUnrecognized == "emit"

\* lines 144-157: one record decoded and appended
DecodeStep ==
    /\ pc = "decode"
    /\ position < Len(data)
    /\ get_map_type(data[position + 1]) # "ValueError"
    /\ LET r == from_bytes(Slice(data, position, position + ScanSize(data, position)))
       IN  /\ r.status = "ok"
           /\ maps' = Append(maps, r.value)
    /\ position' = position + ScanSize(data, position)
    /\ UNCHANGED <<data, pc, candidate_offset, valid_n, result, exc, run_start,
                   map_data_offset, xdf, codecVars>>

\* lines 153-156: from_bytes raises on a window cut short by the end of the image
DecodeRaise ==
    /\ pc = "decode"
    /\ position < Len(data)
    /\ get_map_type(data[position + 1]) # "ValueError"
    /\ LET r == from_bytes(Slice(data, position, position + ScanSize(data, position)))
       IN  /\ r.status # "ok"
           /\ exc' = r.status
    /\ position' = position + ScanSize(data, position)
    /\ pc' = "error"
    /\ UNCHANGED <<data, candidate_offset, valid_n, result, run_start,
                   genVars, codecVars>>

\* lines 147-149: an unrecognised leading byte ends the table
DecodeBreak ==
    /\ pc = "decode"
    /\ position < Len(data)
    /\ get_map_type(data[position + 1]) = "ValueError"
    /\ pc' = AfterUnrecognized
    /\ exc' = IF AfterUnrecognized = "emit" THEN exc ELSE "ValueError"
    /\ UNCHANGED <<data, position, candidate_offset, valid_n, result, run_start,
                   genVars, codecVars>>

\* line 144: the cursor is at or past the end of the image
DecodeEnd ==
    /\ pc = "decode"
    /\ position >= Len(data)
    /\ pc' = "emit"
    /\ UNCHANGED <<data, position, candidate_offset, valid_n, result, exc, run_start,
                   genVars, codecVars>>

\* lines 160-247: the document is written
Emit ==
    /\ pc = "emit"
    /\ xdf' = XdfTables(maps)
    /\ pc' = "done"
    /\ UNCHANGED <<data, position, candidate_offset, valid_n, result, exc, run_start,
                   map_data_offset, maps, codecVars>>

NextGenerate ==
    \/ StartExplicit
    \/ StartLocate
    \/ ScanValid
    \/ ScanFound
    \/ ScanInvalid
    \/ ScanRaise
    \/ ScanExhausted
    \/ LocateReturn
    \/ DecodeStep
    \/ DecodeRaise
    \/ DecodeBreak
    \/ DecodeEnd
    \/ Emit

SpecGenerate == InitGenerate /\ [][NextGenerate]_vars

(***************************************************************************)
(* The record codec called on its own, as test_xdfgenerator.py does        *)
(***************************************************************************)
MaxWords == 4

Ids == {0, 9, 15, 16, 41, 42, 43, 255}
XLens == {29}
Byte2s == {0, 25}
Byte3s == {0, 1, 255}
\* 0, 4 and 0x60704 as big-endian words
Words == {<<0, 0, 0, 0>>, <<0, 0, 0, 4>>, <<0, 6, 7, 4>>}
\* 4 (the address 4 is the image size, 0x60704 is beyond it) and 0x100000
BinSizes == {4, 1048576}

Headers == {<<i, x, b, c>> : i \in Ids, x \in XLens, b \in Byte2s, c \in Byte3s}

\* a 4-byte header followed by at most MaxWords words, or a header cut short
Windows ==
    {h \o ws : h \in Headers, ws \in Concatenations(Words, MaxWords)}
    \cup {SubSeq(h, 1, k) : h \in Headers, k \in 0..3}

InitCodec ==
    /\ window \in Windows
    /\ bin_size \in BinSizes
    /\ verdict = "none"
    /\ map_info = Raised("none")
    /\ corrupted = FALSE
    /\ cpc = "ready"
    /\ data = <<>>
    /\ pc = "idle"
    /\ position = 0
    /\ candidate_offset = None
    /\ valid_n = 0
    /\ result = None
    /\ exc = "none"
    /\ run_start = None
    /\ GenIdle

\* test lines 49-61: MapInfo.validate_map_info_format(window, bin_size)
Validate ==
    /\ cpc = "ready"
    /\ verdict' = validate_map_info_format(window, bin_size)
    /\ cpc' = "validated"
    /\ UNCHANGED <<data, scanVars, genVars, window, bin_size, map_info, corrupted>>

\* test lines 17-38: MapInfo.from_bytes(window)
Decode ==
    /\ cpc = "ready"
    /\ map_info' = from_bytes(window)
    /\ cpc' = "decoded"
    /\ UNCHANGED <<data, scanVars, genVars, window, bin_size, verdict, corrupted>>

\* test lines 56, 60: window[:-1] + b'\x01' of a window found valid
CorruptFinalByte ==
    /\ cpc = "validated"
    /\ verdict = "True"
    /\ ~corrupted
    /\ window[Len(window)] = 0
    /\ window' = SubSeq(window, 1, Len(window) - 1) \o <<1>>
    /\ corrupted' = TRUE
    /\ verdict' = "none"
    /\ cpc' = "ready"
    /\ UNCHANGED <<data, scanVars, genVars, bin_size, map_info>>

NextCodec ==
    \/ Validate
    \/ Decode
    \/ CorruptFinalByte

SpecCodec == InitCodec /\ [][NextCodec]_vars

(***************************************************************************)
(* Vocabulary of the properties                                            *)
(***************************************************************************)
\* the record at offset o of buf is plausible: a full window of its kind's
\* size lies in buf and validate_map_info_format accepts it
PlausibleAt(buf, o) ==
    /\ 0 <= o /\ o < Len(buf)
    /\ get_map_type(buf[o + 1]) # "ValueError"
    /\ o + ScanSize(buf, o) <= Len(buf)
    /\ validate_map_info_format(Slice(buf, o, o + ScanSize(buf, o)), Len(buf)) = "True"

\* n plausible records lie end to end from offset o
RECURSIVE RunAt(_, _, _)
RunAt(buf, o, n) ==
    IF n = 0 THEN TRUE
    ELSE PlausibleAt(buf, o) /\ RunAt(buf, o + ScanSize(buf, o), n - 1)

\* the offset just past n plausible records laid end to end from o
RECURSIVE RunEnd(_, _, _)
RunEnd(buf, o, n) ==
    IF n = 0 THEN o ELSE RunEnd(buf, o + ScanSize(buf, o), n - 1)

\* O is the first offset of buf at which a qualifying run starts
FirstRun(buf, O) ==
    /\ RunAt(buf, O, VALID_N_THRESHOLD)
    /\ \A o \in 0..(O - 1) : ~RunAt(buf, o, VALID_N_THRESHOLD)

\* the unsigned big-endian 32-bit field at bytes i..i+3 of w
U32At(w, i) == w[i + 1] * 16777216 + w[i + 2] * 65536 + w[i + 3] * 256 + w[i + 4]

\* w is a full window of a recognised kind
Is2DWindow(w) == Len(w) = 16 /\ w[1] <= 15
Is3DWindow(w) == Len(w) = 20 /\ w[1] >= 16 /\ w[1] <= 42

BadAddress(a, size) == a = 0 \/ a >= size

ScanEnded == pc \in {"returned", "notfound", "error"}

(***************************************************************************)
(* C1: if 5 or more plausible records lie end to end from offset O and no  *)
(* such run starts earlier, find_lookup_table_offset returns exactly O     *)
(* (O = 0 included).  Stated of the finished scan.                         *)
(***************************************************************************)
C1_LocateReturnsFirstRun ==
    \A O \in 0..Len(data) :
        (ScanEnded /\ FirstRun(data, O)) => (pc = "returned" /\ result = O)

(***************************************************************************)
(* C2: on an image with no run of 5 plausible contiguous records the scan  *)
(* ends with the "Cannot determine lookup table offset" ValueError and in  *)
(* no other way.                                                           *)
(***************************************************************************)
C2_NoRunMeansNotFound ==
    (ScanEnded /\ \A o \in 0..Len(data) : ~RunAt(data, o, VALID_N_THRESHOLD))
        => (pc = "notfound" /\ exc = "ValueError")

(***************************************************************************)
(* C3: validate_map_info_format returns false for every full record window *)
(* with a populated address field that is 0 or >= the image size (x and z  *)
(* of a 2-D record; x, y and z of a 3-D record).                           *)
(***************************************************************************)
C3_BadAddressRejected ==
    /\ (cpc = "validated" /\ Is2DWindow(window)
            /\ (BadAddress(U32At(window, 4), bin_size)
                \/ BadAddress(U32At(window, 8), bin_size)))
        => verdict = "False"
    /\ (cpc = "validated" /\ Is3DWindow(window)
            /\ (BadAddress(U32At(window, 4), bin_size)
                \/ BadAddress(U32At(window, 8), bin_size)
                \/ BadAddress(U32At(window, 12), bin_size)))
        => verdict = "False"

(***************************************************************************)
(* C4: validate_map_info_format returns false for every window of at least *)
(* 4 bytes (every full-size record window among them) whose last 4 bytes   *)
(* are not all 0x00 or whose byte at offset 3 is neither 0x00 nor 0xFF;    *)
(* and a window found valid is found invalid once its final byte is        *)
(* changed from 0x00 to 0x01.                                              *)
(***************************************************************************)
C4_PaddingRejected ==
    /\ (cpc = "validated" /\ Len(window) >= 4
            /\ (\E i \in 1..Len(window) : i > Len(window) - 4 /\ window[i] # 0))
        => verdict = "False"
    /\ (cpc = "validated" /\ Len(window) >= 4 /\ window[4] # 0 /\ window[4] # 255)
        => verdict = "False"
    /\ (cpc = "validated" /\ corrupted) => verdict = "False"

\* a 3-D record that was valid has been validated again with its final byte 0x01
C4_Witness ==
    /\ cpc = "validated"
    /\ corrupted
    /\ Is3DWindow(window)
    /\ window[20] = 1
    /\ verdict = "False"

(***************************************************************************)
(* C5: validate_map_info_format never raises: for every window that        *)
(* find_lookup_table_offset passes to it (the window at the cursor, cut    *)
(* short by the end of the image or not) it returns true or false.         *)
(***************************************************************************)
C5_ValidateNeverRaises ==
    (pc = "scan" /\ position < Len(data)
        /\ get_map_type(data[position + 1]) # "ValueError")
    => validate_map_info_format(
           Slice(data, position, position + ScanSize(data, position)), Len(data))
       \in {"True", "False"}

(***************************************************************************)
(* C6: from_bytes reads fixed big-endian unsigned fields chosen by the     *)
(* leading byte.  A 16-byte window with byte0 <= 0x0F gives a 2-D record   *)
(* with type_id = byte0, x_length = byte1, x_address = bytes 4-7,          *)
(* z_address = bytes 8-11 and no y_length or y_address.  A 20-byte window  *)
(* with byte0 in 0x10..0x2A gives a 3-D record with type_id = byte0,       *)
(* x_length = byte1, y_length = byte2, x_address = bytes 4-7, y_address =  *)
(* bytes 8-11, z_address = bytes 12-15, the y fields populated also when   *)
(* they are 0.                                                             *)
(***************************************************************************)
C6_DecodeLayout ==
    /\ (cpc = "decoded" /\ Is2DWindow(window)) =>
        /\ map_info.status = "ok"
        /\ map_info.value.type = "2d"
        /\ map_info.value.id = window[1]
        /\ map_info.value.x_len = window[2]
        /\ map_info.value.x_addr = U32At(window, 4)
        /\ map_info.value.z_addr = U32At(window, 8)
        /\ map_info.value.y_len = None
        /\ map_info.value.y_addr = None
    /\ (cpc = "decoded" /\ Is3DWindow(window)) =>
        /\ map_info.status = "ok"
        /\ map_info.value.type = "3d"
        /\ map_info.value.id = window[1]
        /\ map_info.value.x_len = window[2]
        /\ map_info.value.y_len = window[3]
        /\ map_info.value.x_addr = U32At(window, 4)
        /\ map_info.value.y_addr = U32At(window, 8)
        /\ map_info.value.z_addr = U32At(window, 12)

\* a 3-D window with y_length 0 and y_address 0 has been decoded
C6_Witness ==
    /\ cpc = "decoded"
    /\ Is3DWindow(window)
    /\ window[3] = 0
    /\ U32At(window, 8) = 0
    /\ U32At(window, 4) = 395012
    /\ U32At(window, 12) = 4
    /\ map_info.status = "ok"
    /\ map_info.value.y_len = 0
    /\ map_info.value.y_addr = 0

(***************************************************************************)
(* C7: with an explicit start offset whose byte is above 0x2A, the decode  *)
(* pass of generate_xdf ends in a fatal UnrecognizedType failure and does  *)
(* not complete normally with an empty record sequence.                    *)
(***************************************************************************)
ExplicitUnrecognized ==
    /\ map_data_offset # None
    /\ map_data_offset < Len(data)
    /\ get_map_type(data[map_data_offset + 1]) = "ValueError"

C7_ExplicitUnrecognizedIsFatal ==
    (ExplicitUnrecognized /\ pc \notin {"start", "decode"})
        => (pc = "error" /\ exc = "ValueError")

\* C7 as amended: with an explicit start offset whose byte is above 0x2A,
\* the decode pass of generate_xdf raises nothing and completes normally
\* with an empty record sequence; the document written holds no table.
C7_ExplicitUnrecognizedEndsEmpty ==
    ExplicitUnrecognized =>
        /\ pc \in {"start", "decode", "emit", "done"}
        /\ exc = "none"
        /\ maps = <<>>
        /\ (pc = "done" => xdf = <<>>)

C7_Witness ==
    /\ ExplicitUnrecognized
    /\ pc = "done"
    /\ maps = <<>>
    /\ xdf = <<>>

(***************************************************************************)
(* C8: whenever valid_n > 0 during the scan, candidate_offset is the       *)
(* position at which the current run's first record was found and the     *)
(* valid_n records laid end to end from candidate_offset are each          *)
(* plausible (they end at the cursor); whenever the scan returns c, 5      *)
(* contiguous plausible records start at c.                                *)
(***************************************************************************)
C8_CandidateIsRunStart ==
    /\ (pc = "scan" /\ valid_n > 0) =>
        /\ candidate_offset = run_start
        /\ RunAt(data, candidate_offset, valid_n)
        /\ RunEnd(data, candidate_offset, valid_n) = position
    /\ pc = "returned" => RunAt(data, result, VALID_N_THRESHOLD)

(***************************************************************************)
(* C9: when the window at the cursor is not plausible (or its leading byte *)
(* is unrecognised) while a run with first record at c is active, for      *)
(* every c, c = 0 included, the next state has no active candidate,        *)
(* valid_n = 0 and position = c + 4; when no run is active the next        *)
(* position is position + 4.                                               *)
(***************************************************************************)
C9_BreakResumesAfterRunStart ==
    [][(pc = "scan" /\ position < Len(data)
            /\ ScanOutcome(data, position) \in {"False", "ValueError"})
        => IF valid_n > 0
           THEN /\ candidate_offset' = None
                /\ valid_n' = 0
                /\ position' = run_start + OFFSET_ALIGNMENT
           ELSE position' = position + OFFSET_ALIGNMENT]_vars

(***************************************************************************)
(* C10: the scan terminates on every image.  A broken run resumes at an    *)
(* offset strictly greater than the start of that run and every run starts *)
(* at a strictly greater offset than the run before it; a scan that has    *)
(* not ended can always make its next pass through the loop; and every     *)
(* pass that does not end the scan strictly increases ScanRank, which is   *)
(* bounded by the image length.  Hence the scan ends after finitely many   *)
(* passes: it returns an offset, or stops at the end of the image.         *)
(***************************************************************************)
\* the least offset the cursor can still be set to, in units that order the
\* passes: first by that offset, then a run in progress before its break,
\* then by the cursor within the run
ScanSpan == Len(data) + calcsize(FORMAT_3D_MAPINFO) + 1
ScanFloor ==
    IF Truthy(candidate_offset) THEN candidate_offset + OFFSET_ALIGNMENT ELSE position
ScanRank ==
    ScanFloor * 2 * ScanSpan + (IF Truthy(candidate_offset) THEN position ELSE ScanSpan)

\* one of the five passes of the loop can be made
ScanCanStep ==
    \/ position >= Len(data)
    \/ ScanOutcome(data, position) \in {"True", "False", "ValueError", "IndexError", "struct.error"}

C10_ScanTerminates ==
    /\ [](pc = "scan" => ScanCanStep)
    /\ [][/\ (pc = "scan" /\ valid_n > 0 /\ valid_n' = 0) => position' > run_start
          /\ (pc = "scan" /\ valid_n = 0 /\ valid_n' = 1) => run_start' > run_start
          /\ (pc = "scan" /\ pc' = "scan") =>
               /\ ScanRank' > ScanRank
               /\ ScanRank' <= (ScanSpan + OFFSET_ALIGNMENT) * 2 * ScanSpan
          /\ (pc = "scan" /\ pc' # "scan") =>
               \/ pc' = "returned" /\ result' >= 0
               \/ pc' = "notfound" /\ position' >= Len(data)
               \/ pc' = "error" /\ position + ScanSize(data, position) > Len(data)]_vars

\* a run that began past offset 0 has broken and the scan has resumed one
\* alignment step after its start
C10_Witness ==
    /\ pc = "scan"
    /\ valid_n = 0
    /\ run_start > 0
    /\ position = run_start + OFFSET_ALIGNMENT
    /\ candidate_offset = None

====
